---- MODULE Spec2Model ----
(***************************************************************************)
(* PCE surrogate fitting, Sobol' index extraction and bootstrap confidence *)
(* intervals of src/PCEsobol.py (class OpenTurnsPCESobol and the module    *)
(* functions multiBootstrap, computeSobolIndicesConfidenceInterval).       *)
(*                                                                         *)
(* Real numbers are fixed-point integers: a Sobol' index is a multiple of  *)
(* 1/Scale (1e-9, the tolerance of unit_eps), a probability level is a     *)
(* multiple of 1/ProbUnit.  Divisions round down, as a model of the        *)
(* rounding of the floating-point division.                                *)
(*                                                                         *)
(* The least-squares solve itself (ot.FunctionalChaosAlgorithm.run) is     *)
(* outside the repository: every coefficient spectrum over the candidate   *)
(* basis is a possible outcome of a fit.                                   *)
(***************************************************************************)
EXTENDS Integers, Sequences, FiniteSets, TLC

VARIABLES
    attrs,          \* TRUE once self.chaosSI, self.metamodel, self.S1, self.ST exist
    S1, ST,         \* self.S1, self.ST: dict output name -> index vector
    metamodel,      \* self.metamodel: dict output name -> data the surrogate was fitted on
    chaosSI,        \* self.chaosSI: dict output name -> data the Sobol object was built on
    config,         \* arguments of the running/last computeChaosSensitivity call
    bootstrap,      \* self.bootstrap: <<>> while unset, else <<[FO, TO, FOI, TOI]>>
    called,         \* the methods called on the object so far
    pc,             \* "idle", "sens" (loop of l.138), "boot" (loops of l.224/231), "aborted"
    oo,             \* position in self.output of the output being processed
    i,              \* iterations of the loop of l.231 completed for output oo
    bootstrap_size, \* argument of computeBootstrapChaosSobolIndices
    fo_sample, to_sample,   \* retained replicates of output oo
    FO, TO, FOI, TOI,       \* local dicts of computeBootstrapChaosSobolIndices
    lastFit,        \* the latest _computeChaosSensitivity call: arguments and what it did
    error,          \* the exception that ended the run, "none" otherwise
    ci_in,          \* samples handed to computeSobolIndicesConfidenceInterval: [fo, to]
    alpha1, alpha2, \* confidence levels handed to it, alpha1 <= alpha2
    ci1, ci2,       \* what it returned for alpha1 and for alpha2 (<<>> before the call)
    mb_in,          \* samples handed to multiBootstrap: [X, Y]
    mb_selection,   \* the selection its latest call drew
    mb_boot         \* what its latest call returned (<<>> before the first call)

objVars == <<attrs, S1, ST, metamodel, chaosSI, config, bootstrap, called, pc, oo, i,
             bootstrap_size, fo_sample, to_sample, FO, TO, FOI, TOI, lastFit, error>>

ciVars == <<ci_in, alpha1, alpha2, ci1, ci2>>

mbVars == <<mb_in, mb_selection, mb_boot>>

vars == <<objVars, ciVars, mbVars>>

-----------------------------------------------------------------------------
(* Bounds of the model *)

\* largest bootstrap_size a run is started with
MaxBootstrapSize == 2

\* number of rows of the design matrix (constructor argument ns)
ns == 2

\* largest number of replicates in a collection handed directly to
\* computeSobolIndicesConfidenceInterval
MaxReplicates == 3

\* largest number of rows of the samples handed directly to multiBootstrap
MaxSampleSize == 3

\* largest degree in one variable of the basis terms whose coefficients a fit leaves nonzero
MaxTermDegree == 1

-----------------------------------------------------------------------------
(* Fixed-point arithmetic *)

Scale == 10^9

PerMille == 10^3

\* probability levels are multiples of 1/ProbUnit, so that (1 - alpha)/2 is exact
ProbUnit == 2 * PerMille

\* floor(a*b/c) for 0 <= a, 0 <= b, 0 < c, without leaving 32 bits
MulDiv(a, b, c) == a * (b \div c) + (a * (b % c)) \div c

RECURSIVE SumOver(_, _)
SumOver(S, f) ==
    IF S = {} THEN 0
    ELSE LET x == CHOOSE y \in S : TRUE
         IN f[x] + SumOver(S \ {x}, f)

-----------------------------------------------------------------------------
(* The problem: inputs, outputs, data *)

\* problem['names']: the model keeps the first two of the nine variables
input == <<"tbumper", "trailb">>

dim_input == Len(input)

\* self.output: the model keeps the first two of the four outputs
output == <<"dmax", "fmax">>

\* a design matrix of n distinct rows of dim_input values
DesignMatrix(n) == [k \in 1..n |-> [d \in 1..dim_input |-> 10 * k + d]]

\* self.inputSample
inputSample == DesignMatrix(ns)

\* self.outputSample[o]: one value per row of the design matrix
outputSample(o) == [k \in 1..ns |-> 100 * o + k]

EmptyDict == [x \in {} |-> 0]

Put(dict, key, val) == (key :> val) @@ dict

-----------------------------------------------------------------------------
(* Basis and enumeration (ot.HyperbolicAnisotropicEnumerateFunction) *)

\* q-quasi-norm parameters tried, in tenths: 0.4 (the default) and 1.0
QSet == {4, 10}

DefaultQ == CHOOSE q \in QSet : \A r \in QSet : q <= r

StrategySet == {"fixed", "cleaning"}

\* degree of the fixed strategy
degree == 2

Support(a) == {d \in 1..dim_input : a[d] > 0}

TotalDegree(a) == SumOver(1..dim_input, a)

\* multi-indices of the basis terms the model keeps: total degree at most degree
MultiIndices == {a \in [1..dim_input -> 0..degree] : TotalDegree(a) <= degree}

\* multi-indices of the strata 0..strataIndex.  For q < 1 a term with two
\* nonzero degrees has q-norm >= 2^(1/q) > 2, so up to strataIndex 2 only
\* terms in a single variable are enumerated; q = 1 is the total degree.
Strata(q, strataIndex) ==
    {a \in MultiIndices :
        /\ TotalDegree(a) <= strataIndex
        /\ q < 10 => Cardinality(Support(a)) <= 1}

getStrataCumulatedCardinal(q, strataIndex) == Cardinality(Strata(q, strataIndex))

\* the non-constant candidate terms of a fit whose coefficients the model
\* follows: those of degree at most MaxTermDegree in each variable (the
\* coefficients of the others are taken to be zero)
CandidateTerms(strategy, q) ==
    {a \in (IF strategy = "fixed" THEN Strata(q, degree) ELSE MultiIndices) :
        Support(a) # {} /\ \A d \in 1..dim_input : a[d] <= MaxTermDegree}

\* coefficient values a fit may return for a term
CoefValues == {0, 1}

Spectra(strategy, q) == [CandidateTerms(strategy, q) -> CoefValues]

-----------------------------------------------------------------------------
(* Sobol' indices of a coefficient spectrum (ot.FunctionalChaosSobolIndices) *)

SquaredCoefficients(coef) == [a \in DOMAIN coef |-> coef[a] * coef[a]]

totalVariance(coef) == SumOver(DOMAIN coef, SquaredCoefficients(coef))

\* first-order index of variable ii: terms that involve variable ii only
getSobolIndex(coef, ii) ==
    LET own == {a \in DOMAIN coef : Support(a) = {ii}}
    IN  IF totalVariance(coef) > 0
        THEN MulDiv(SumOver(own, SquaredCoefficients(coef)), Scale, totalVariance(coef))
        ELSE 0

\* total-order index of variable ii: all terms that involve variable ii
getSobolTotalIndex(coef, ii) ==
    LET all == {a \in DOMAIN coef : ii \in Support(a)}
    IN  IF totalVariance(coef) > 0
        THEN MulDiv(SumOver(all, SquaredCoefficients(coef)), Scale, totalVariance(coef))
        ELSE 0

\* SobolResult with the two vectors returned in the wrong order
SobolResultSwapped(coef) ==
    [S1 |-> [ii \in 1..dim_input |-> getSobolTotalIndex(coef, ii)],
     ST |-> [ii \in 1..dim_input |-> getSobolIndex(coef, ii)]]

\* l.197-199: the pair of vectors _computeChaosSensitivity returns
SobolResult(coef) ==
    [S1 |-> [ii \in 1..dim_input |-> getSobolIndex(coef, ii)],
     ST |-> [ii \in 1..dim_input |-> getSobolTotalIndex(coef, ii)]]

-----------------------------------------------------------------------------
(* Bootstrap resampling and confidence intervals (module functions) *)

\* ot.BootstrapExperiment.GenerateSelection(size, size): size draws with replacement
GenerateSelection(size) == [1..size -> 1..size]

\* multiBootstrap with the samples resampled one by one, each in its own order
multiBootstrapSeparately(X, Y, selection) ==
    <<[k \in 1..Len(X) |-> X[selection[k]]],
      [k \in 1..Len(X) |-> Y[selection[Len(X) + 1 - k]]]>>

\* l.360-377: the same selection indexes every sample of data (here X and Y)
multiBootstrap(X, Y, selection) ==
    <<[k \in 1..Len(X) |-> X[selection[k]]], [k \in 1..Len(X) |-> Y[selection[k]]]>>

\* tolerance of unit_eps, in units of 1/Scale
eps == 1

\* unit_eps without its tolerance: the closed interval [0, 1]
unit_closed ==
    [lower |-> [d \in 1..dim_input |-> 0], upper |-> [d \in 1..dim_input |-> Scale]]

\* l.230: ot.Interval([1e-9] * dim_input, [1 - 1e-9] * dim_input)
unit_eps ==
    [lower |-> [d \in 1..dim_input |-> eps], upper |-> [d \in 1..dim_input |-> Scale - eps]]

\* ot.Interval.contains
contains(interval, point) ==
    \A d \in 1..dim_input : interval.lower[d] <= point[d] /\ point[d] <= interval.upper[d]

RECURSIVE InsertSorted(_, _)
InsertSorted(x, s) ==
    IF s = <<>> THEN <<x>>
    ELSE IF x <= Head(s) THEN <<x>> \o s
    ELSE <<Head(s)>> \o InsertSorted(x, Tail(s))

RECURSIVE sortSample(_)
sortSample(s) == IF s = <<>> THEN <<>> ELSE InsertSorted(Head(s), sortSample(Tail(s)))

\* sample[:, d]
Column(sample, d) == [k \in 1..Len(sample) |-> sample[k][d]]

\* ot.Sample.computeQuantile on a one-column, non-empty sample: the empirical
\* quantile at level prob/ProbUnit, interpolated between two order statistics
computeQuantile(column, prob) ==
    LET n == Len(column)
        sorted == sortSample(column)
        scalarIndex == prob * n - ProbUnit \div 2     \* in units of 1/ProbUnit
        index == scalarIndex \div ProbUnit
        frac == scalarIndex % ProbUnit
    IN  IF scalarIndex >= (n - 1) * ProbUnit THEN sorted[n]
        ELSE IF scalarIndex <= 0 THEN sorted[1]
        ELSE sorted[index + 1]
             + MulDiv(frac, sorted[index + 2] - sorted[index + 1], ProbUnit)

\* default confidence level, in thousandths
DefaultAlpha == 950

\* beta with the confidence level taken for the tail mass: alpha / 2
betaOfAlpha(alpha) == alpha

\* l.413: beta = (1.0 - alpha) / 2, in units of 1/ProbUnit
beta(alpha) == PerMille - alpha

\* l.414-417: the bounds of dimension d
lb(sample, d, alpha) == computeQuantile(Column(sample, d), beta(alpha))

ub(sample, d, alpha) == computeQuantile(Column(sample, d), ProbUnit - beta(alpha))

\* computeSobolIndicesConfidenceInterval with to_i taken from fo_sample
confidenceIntervalFromFirstOrder(fo, to, alpha) ==
    <<[lower |-> [d \in 1..dim_input |-> lb(fo, d, alpha)],
       upper |-> [d \in 1..dim_input |-> ub(fo, d, alpha)]],
      [lower |-> [d \in 1..dim_input |-> lb(fo, d, alpha)],
       upper |-> [d \in 1..dim_input |-> ub(fo, d, alpha)]]>>

\* l.380-422, for non-empty samples: <<fo_interval, to_interval>>
computeSobolIndicesConfidenceInterval(fo, to, alpha) ==
    <<[lower |-> [d \in 1..dim_input |-> lb(fo, d, alpha)],
       upper |-> [d \in 1..dim_input |-> ub(fo, d, alpha)]],
      [lower |-> [d \in 1..dim_input |-> lb(to, d, alpha)],
       upper |-> [d \in 1..dim_input |-> ub(to, d, alpha)]]>>

-----------------------------------------------------------------------------
(* The object: OpenTurnsPCESobol *)

DefaultStrategy == "cleaning"

NoFit == [strategy |-> "none", q |-> 0, size |-> 0, indexMax |-> 0,
          solved |-> FALSE, degenerate |-> FALSE, fittedOn |-> "none"]

NoConfig == [strategy |-> "none", q |-> 0]

\* l.87-125: the state the constructor leaves
InitObject ==
    /\ attrs = FALSE
    /\ S1 = EmptyDict /\ ST = EmptyDict
    /\ metamodel = EmptyDict /\ chaosSI = EmptyDict
    /\ config = NoConfig
    /\ bootstrap = <<>>
    /\ called = {}
    /\ pc = "idle"
    /\ oo = 0 /\ i = 0 /\ bootstrap_size = 0
    /\ fo_sample = <<>> /\ to_sample = <<>>
    /\ FO = EmptyDict /\ TO = EmptyDict /\ FOI = EmptyDict /\ TOI = EmptyDict
    /\ lastFit = NoFit
    /\ error = "none"

\* l.143-199, up to the result: the candidate basis is built, algo.run() solves
\* for coef on the sample Xs, then the surrogate and its Sobol object are stored
\* under the output's name; the store raises AttributeError when the dicts do
\* not exist.  sampleName tells which sample object Xs is.
_computeChaosSensitivity(Xs, sampleName, oname, strategy, q, coef) ==
    /\ lastFit' = [strategy |-> strategy, q |-> q, size |-> Len(Xs),
                   indexMax |-> IF strategy = "fixed"
                                THEN getStrataCumulatedCardinal(q, degree) ELSE 0,
                   solved |-> TRUE,
                   degenerate |-> totalVariance(coef) = 0,
                   fittedOn |-> sampleName]
    /\ IF attrs
       THEN /\ metamodel' = Put(metamodel, oname, sampleName)
            /\ chaosSI' = Put(chaosSI, oname, sampleName)
       ELSE UNCHANGED <<metamodel, chaosSI>>

\* l.128-137: computeChaosSensitivity(strategy, q) up to the loop
computeChaosSensitivity(strategy, q) ==
    /\ pc = "idle"
    /\ "computeChaosSensitivity" \notin called
    /\ called' = called \cup {"computeChaosSensitivity"}
    /\ attrs' = TRUE
    /\ chaosSI' = EmptyDict /\ metamodel' = EmptyDict
    /\ S1' = EmptyDict /\ ST' = EmptyDict
    /\ config' = [strategy |-> strategy, q |-> q]
    /\ pc' = "sens" /\ oo' = 1
    /\ UNCHANGED <<bootstrap, i, bootstrap_size, fo_sample, to_sample,
                   FO, TO, FOI, TOI, lastFit, error>>
    /\ UNCHANGED <<ciVars, mbVars>>

\* l.138-140: one iteration of the loop over the outputs
SensStep ==
    /\ pc = "sens"
    /\ \E coef \in Spectra(config.strategy, config.q) :
          /\ _computeChaosSensitivity(inputSample, "inputSample", output[oo],
                                      config.strategy, config.q, coef)
          /\ S1' = Put(S1, output[oo], SobolResult(coef).S1)
          /\ ST' = Put(ST, output[oo], SobolResult(coef).ST)
    /\ IF oo < Len(output)
       THEN pc' = "sens" /\ oo' = oo + 1
       ELSE pc' = "idle" /\ oo' = 0
    /\ UNCHANGED <<attrs, config, bootstrap, called, i, bootstrap_size, fo_sample,
                   to_sample, FO, TO, FOI, TOI, error>>
    /\ UNCHANGED <<ciVars, mbVars>>

\* l.206-230: computeBootstrapChaosSobolIndices(bootstrap_size) up to the first replicate
computeBootstrapChaosSobolIndices(size) ==
    /\ pc = "idle"
    /\ "computeBootstrapChaosSobolIndices" \notin called
    /\ called' = called \cup {"computeBootstrapChaosSobolIndices"}
    /\ bootstrap_size' = size
    /\ FO' = EmptyDict /\ TO' = EmptyDict /\ FOI' = EmptyDict /\ TOI' = EmptyDict
    /\ pc' = "boot" /\ oo' = 1 /\ i' = 0
    /\ fo_sample' = <<>> /\ to_sample' = <<>>
    /\ UNCHANGED <<attrs, S1, ST, metamodel, chaosSI, config, bootstrap, lastFit, error>>
    /\ UNCHANGED <<ciVars, mbVars>>

\* l.231-236: one replicate: resample, refit, keep the indices if inside unit_eps
BootstrapReplicate ==
    /\ pc = "boot"
    /\ i < bootstrap_size
    /\ \E selection \in GenerateSelection(ns), coef \in Spectra(DefaultStrategy, DefaultQ) :
          LET boot == multiBootstrap(inputSample, outputSample(oo), selection)
              X_boot == boot[1]
              first_order == SobolResult(coef).S1
              total_order == SobolResult(coef).ST
          IN  /\ _computeChaosSensitivity(X_boot, "X_boot", output[oo],
                                          DefaultStrategy, DefaultQ, coef)
              /\ IF ~attrs
                 THEN /\ pc' = "aborted" /\ error' = "AttributeError"
                      /\ UNCHANGED <<i, fo_sample, to_sample>>
                 ELSE /\ IF contains(unit_eps, first_order) /\ contains(unit_eps, total_order)
                         THEN /\ fo_sample' = Append(fo_sample, first_order)
                              /\ to_sample' = Append(to_sample, total_order)
                         ELSE UNCHANGED <<fo_sample, to_sample>>
                      /\ i' = i + 1
                      /\ UNCHANGED <<pc, error>>
    /\ UNCHANGED <<attrs, S1, ST, config, bootstrap, called, oo, bootstrap_size,
                   FO, TO, FOI, TOI>>
    /\ UNCHANGED <<ciVars, mbVars>>

\* l.237-253: after the replicates of output oo: the intervals (computeQuantile
\* raises on an empty sample), the local dicts, then the next output or, after
\* the last one, self.bootstrap
BootstrapInterval ==
    /\ pc = "boot"
    /\ i = bootstrap_size
    /\ IF fo_sample = <<>>
       THEN /\ pc' = "aborted" /\ error' = "LibraryException"
            /\ UNCHANGED <<bootstrap, oo, i, fo_sample, to_sample, FO, TO, FOI, TOI,
                           bootstrap_size>>
       ELSE LET interval == computeSobolIndicesConfidenceInterval(fo_sample, to_sample,
                                                                  DefaultAlpha)
                newFO == Put(FO, output[oo], fo_sample)
                newTO == Put(TO, output[oo], to_sample)
                newFOI == Put(FOI, output[oo], interval[1])
                newTOI == Put(TOI, output[oo], interval[2])
            IN  IF oo < Len(output)
                THEN /\ FO' = newFO /\ TO' = newTO /\ FOI' = newFOI /\ TOI' = newTOI
                     /\ oo' = oo + 1 /\ i' = 0
                     /\ fo_sample' = <<>> /\ to_sample' = <<>>
                     /\ UNCHANGED <<bootstrap, pc, error, bootstrap_size>>
                ELSE /\ bootstrap' = <<[FO |-> newFO, TO |-> newTO,
                                        FOI |-> newFOI, TOI |-> newTOI]>>
                     /\ pc' = "idle" /\ oo' = 0 /\ i' = 0 /\ bootstrap_size' = 0
                     /\ fo_sample' = <<>> /\ to_sample' = <<>>
                     /\ FO' = EmptyDict /\ TO' = EmptyDict
                     /\ FOI' = EmptyDict /\ TOI' = EmptyDict
                     /\ UNCHANGED error
    /\ UNCHANGED <<attrs, S1, ST, metamodel, chaosSI, config, called, lastFit>>
    /\ UNCHANGED <<ciVars, mbVars>>

\* the module functions are not in use while the object runs
InitCI == ci_in = <<>> /\ alpha1 = DefaultAlpha /\ alpha2 = DefaultAlpha
          /\ ci1 = <<>> /\ ci2 = <<>>

InitMB == mb_in = <<>> /\ mb_selection = <<>> /\ mb_boot = <<>>

Init == InitObject /\ InitCI /\ InitMB

Next ==
    \/ \E strategy \in StrategySet, q \in QSet : computeChaosSensitivity(strategy, q)
    \/ SensStep
    \/ \E size \in 0..MaxBootstrapSize : computeBootstrapChaosSobolIndices(size)
    \/ BootstrapReplicate
    \/ BootstrapInterval

Spec == Init /\ [][Next]_vars

-----------------------------------------------------------------------------
(* computeSobolIndicesConfidenceInterval applied to bounded inputs *)

\* confidence levels tried, in thousandths
AlphaSet == {500, 900, DefaultAlpha}

\* terms of the surrogates the replicates come from: one variable, or a
\* product of distinct variables
CITerms == {a \in MultiIndices : Support(a) # {} /\ TotalDegree(a) = Cardinality(Support(a))}

\* replicates the collections are made of: the index pairs of the spectra
\* with coefficients 0, 1, 2 that lie inside unit_eps
CIReplicates ==
    {r \in {SobolResult(c) : c \in [CITerms -> 0..2]} :
        contains(unit_eps, r.S1) /\ contains(unit_eps, r.ST)}

CICollections ==
    UNION {[1..n -> CIReplicates] : n \in 1..MaxReplicates}

InitCIInputs ==
    /\ \E reps \in CICollections :
          ci_in = [fo |-> [k \in DOMAIN reps |-> reps[k].S1],
                   to |-> [k \in DOMAIN reps |-> reps[k].ST]]
    /\ alpha1 \in AlphaSet /\ alpha2 \in AlphaSet /\ alpha1 <= alpha2
    /\ ci1 = <<>> /\ ci2 = <<>>

ConfidenceIntervals ==
    /\ ci1 = <<>>
    /\ ci1' = <<computeSobolIndicesConfidenceInterval(ci_in.fo, ci_in.to, alpha1)>>
    /\ ci2' = <<computeSobolIndicesConfidenceInterval(ci_in.fo, ci_in.to, alpha2)>>
    /\ UNCHANGED <<ci_in, alpha1, alpha2, objVars, mbVars>>

InitSpecCI == InitObject /\ InitCIInputs /\ InitMB

NextCI == ConfidenceIntervals

SpecCI == InitSpecCI /\ [][NextCI]_vars

-----------------------------------------------------------------------------
(* multiBootstrap applied to bounded inputs *)

\* values of a response vector
YValues == {1, 2}

InitMBInputs ==
    /\ \E n \in 1..MaxSampleSize : \E Y \in [1..n -> YValues] :
          mb_in = [X |-> DesignMatrix(n), Y |-> Y]
    /\ mb_selection = <<>> /\ mb_boot = <<>>

\* one call multiBootstrap(X, Y): it draws its own selection
Resample ==
    /\ \E selection \in GenerateSelection(Len(mb_in.X)) :
          /\ mb_selection' = selection
          /\ mb_boot' = multiBootstrap(mb_in.X, mb_in.Y, selection)
    /\ UNCHANGED <<mb_in, objVars, ciVars>>

InitSpecMB == InitObject /\ InitCI /\ InitMBInputs

NextMB == Resample

SpecMB == InitSpecMB /\ [][NextMB]_vars

-----------------------------------------------------------------------------
(* Properties *)

InsideTolerance(point) ==
    \A d \in 1..dim_input : eps <= point[d] /\ point[d] <= Scale - eps

\* two collections hold, row by row, the S1 and the ST of one replicate each,
\* every one of them inside [eps, 1 - eps]
RetainedPairs(fo, to) ==
    /\ Len(fo) = Len(to)
    /\ \A k \in 1..Len(fo) :
          /\ InsideTolerance(fo[k]) /\ InsideTolerance(to[k])
          /\ \E c \in Spectra(DefaultStrategy, DefaultQ) :
                SobolResult(c).S1 = fo[k] /\ SobolResult(c).ST = to[k]

C2_ExactlyBAttempts ==
    pc = "aborted" =>
        /\ i = bootstrap_size
        /\ (oo = Len(output) \/ bootstrap_size = 0)

\* C3: when all bootstrap_size (at least one) replicates of an output were
\* discarded the run fails with InsufficientValidReplicatesError, that error is
\* raised only then, and no empty collection is stored.
C3_InsufficientValidReplicates ==
    /\ (pc = "aborted" /\ bootstrap_size > 0 /\ i = bootstrap_size /\ fo_sample = <<>>)
          => error = "InsufficientValidReplicatesError"
    /\ error = "InsufficientValidReplicatesError"
          => (i = bootstrap_size /\ fo_sample = <<>>)
    /\ \A o \in DOMAIN FO : FO[o] # <<>>

\* the bounds computeSobolIndicesConfidenceInterval has to return for a
\* collection: the quantiles of column d at levels (1 - alpha)/2 and 1 - (1 - alpha)/2
QuantileBounds(result, sample, alpha) ==
    \A d \in 1..dim_input :
        /\ result.lower[d] = computeQuantile(Column(sample, d), PerMille - alpha)
        /\ result.upper[d] = computeQuantile(Column(sample, d), PerMille + alpha)
        /\ result.lower[d] <= result.upper[d]

\* C4: for each dimension and each index type the returned bounds are the
\* (1 - alpha)/2 and 1 - (1 - alpha)/2 quantiles of that column of that
\* collection, and the lower bound is not above the upper bound.
C4_IntervalIsQuantiles ==
    ci1 # <<>> =>
        /\ QuantileBounds(ci1[1][1], ci_in.fo, alpha1)
        /\ QuantileBounds(ci1[1][2], ci_in.to, alpha1)
        /\ QuantileBounds(ci2[1][1], ci_in.fo, alpha2)
        /\ QuantileBounds(ci2[1][2], ci_in.to, alpha2)

\* C4 witness: a call at the default level on three replicates whose first-order
\* and total-order intervals differ and are not reduced to a point
C4_Witness ==
    /\ ci1 # <<>> /\ alpha1 = DefaultAlpha /\ Len(ci_in.fo) = 3
    /\ ci1[1][1] # ci1[1][2]
    /\ \E d \in 1..dim_input : ci1[1][1].lower[d] < ci1[1][1].upper[d]

Within(inner, outer) ==
    \A d \in 1..dim_input :
        outer.lower[d] <= inner.lower[d] /\ inner.upper[d] <= outer.upper[d]

\* C5: for the same collections and alpha1 <= alpha2, the intervals returned for
\* alpha2 contain those returned for alpha1, in every dimension, for both index types.
C5_IntervalWidensWithAlpha ==
    ci1 # <<>> =>
        /\ alpha1 <= alpha2
        /\ Within(ci1[1][1], ci2[1][1])
        /\ Within(ci1[1][2], ci2[1][2])

\* C5 witness: a higher level that strictly lowers a lower bound
C5_Witness ==
    /\ ci1 # <<>> /\ alpha1 < alpha2
    /\ \E d \in 1..dim_input : ci2[1][1].lower[d] < ci1[1][1].lower[d]

\* C6: both resamples have the size N of the original sample, and position k of
\* both holds the row and the value of the same original index, the k-th of the
\* N indices (each in 1..N) the call drew.
C6_JointResample ==
    mb_boot # <<>> =>
        LET N == Len(mb_in.X)
        IN  /\ Len(mb_boot[1]) = N /\ Len(mb_boot[2]) = N
            /\ DOMAIN mb_selection = 1..N
            /\ \A k \in 1..N :
                  /\ mb_selection[k] \in 1..N
                  /\ mb_boot[1][k] = mb_in.X[mb_selection[k]]
                  /\ mb_boot[2][k] = mb_in.Y[mb_selection[k]]

\* C6 witness: a resample that repeats one row, leaves another out, and whose
\* response values differ between the rows
C6_Witness ==
    /\ mb_boot # <<>> /\ Len(mb_in.X) = 3
    /\ mb_selection[1] = mb_selection[3] /\ mb_selection[2] # mb_selection[1]
    /\ mb_boot[2][1] # mb_boot[2][2]

LeqPointwise(first, total) == \A d \in 1..dim_input : first[d] <= total[d]

LeqRows(fo, to) == \A k \in 1..Len(fo) : LeqPointwise(fo[k], to[k])

\* C7: every first-order index a fit returned is at most the total-order index
\* of the same dimension: in self.S1/self.ST and in every retained replicate.
C7_FirstOrderAtMostTotal ==
    /\ \A o \in DOMAIN S1 : o \in DOMAIN ST => LeqPointwise(S1[o], ST[o])
    /\ LeqRows(fo_sample, to_sample)
    /\ \A o \in DOMAIN FO : LeqRows(FO[o], TO[o])
    /\ bootstrap # <<>> =>
          \A o \in DOMAIN bootstrap[1].FO : LeqRows(bootstrap[1].FO[o], bootstrap[1].TO[o])

\* C7 witness: a stored surrogate with an interaction term: a positive
\* first-order index strictly below the total-order index
C7_Witness ==
    \E o \in DOMAIN S1 : \E d \in 1..dim_input :
        o \in DOMAIN ST /\ 0 < S1[o][d] /\ S1[o][d] < ST[o][d]

\* C8: a fit whose non-constant coefficients are all zero fails with
\* DegenerateSurrogateError, and no all-zero index vectors are stored.
C8_DegenerateSurrogateFails ==
    /\ lastFit.degenerate => error = "DegenerateSurrogateError"
    /\ \A o \in DOMAIN ST : \E d \in 1..dim_input : ST[o][d] > 0

\* C9: a fit with strategy 'fixed' and more candidate terms than samples fails
\* with UnderdeterminedFitError before the solve is attempted.
C9_UnderdeterminedFitFails ==
    (lastFit.strategy = "fixed" /\ lastFit.indexMax > lastFit.size)
        => (error = "UnderdeterminedFitError" /\ ~lastFit.solved)

\* C10: when the analysis of one output aborts because none of its (at least
\* one) replicates was retained, every other output of the run still has its
\* collections and intervals stored.
C10_OutputsIsolated ==
    (pc = "aborted" /\ bootstrap_size > 0 /\ i = bootstrap_size /\ fo_sample = <<>>) =>
        \A k \in 1..Len(output) :
            k # oo =>
                /\ bootstrap # <<>>
                /\ output[k] \in DOMAIN bootstrap[1].FO
                /\ output[k] \in DOMAIN bootstrap[1].FOI

\* C11: a fit call leaves the stored surrogates and Sobol objects alone: the
\* ones stored for an output are always those fitted on the full inputSample,
\* from which the stored S1/ST of that output come, and a bootstrap run on an
\* object on which computeChaosSensitivity was never called does not fail on
\* the missing attributes.
C11_FitCallIsPure ==
    /\ \A o \in DOMAIN metamodel : metamodel[o] = "inputSample"
    /\ \A o \in DOMAIN chaosSI : chaosSI[o] = "inputSample"
    /\ \A o \in DOMAIN S1 : o \in DOMAIN metamodel
    /\ error # "AttributeError"

\* C12: every bootstrap refit of a configured run uses the strategy and the q
\* the run was configured with in computeChaosSensitivity.
C12_RefitUsesRunConfiguration ==
    (attrs /\ lastFit.fittedOn = "X_boot") =>
        (lastFit.strategy = config.strategy /\ lastFit.q = config.q)

====
